---- MODULE Spec2Model ----
(***************************************************************************)
(* A model of weasel's command cache and remote artifact store:           *)
(*   - the project directory as a map from relative paths to file trees,  *)
(*   - the content hasher (get_checksum),                                 *)
(*   - the remote storage backend with push / pull / find,                *)
(*   - the lock file (project.lock) with get_lock_entry, update_lockfile  *)
(*     and the skip decision of the executor.                             *)
(***************************************************************************)
EXTENDS Integers, Sequences, FiniteSets, TLC

VARIABLES
    local,      \* project directory: relative path -> node (file tree)
    remote,     \* backend: set of stored artifacts [path, ch, cch, ts, data]
    clock,      \* storage clock: the timestamp of the latest push
    pushlog,    \* history: the sequence of artifacts written by pushes
    lockfile,   \* project.lock: [exists, data] with data: command name -> entry
    runs,       \* history: per command, the dependencies as they were when its
                \* lock entry was last recorded
    last        \* the last operation, its arguments and result; whether the
                \* local path existed and how many artifacts were stored before it

vars == <<local, remote, clock, pushlog, lockfile, runs, last>>

(***************************************************************************)
(* Bounds of the model.                                                    *)
(***************************************************************************)
MaxPushes == 2      \* pushes per behaviour (the storage clock stops there)

(***************************************************************************)
(* File trees.  A node is absent, a regular file with bytes, a directory   *)
(* with named children (kept sorted by name) or a special file (fifo,      *)
(* socket, ...), which exists but is neither file nor directory.           *)
(***************************************************************************)
None == "None"

Absent == [kind |-> "none", data |-> <<>>, kids |-> <<>>]
File(bytes) == [kind |-> "file", data |-> bytes, kids |-> <<>>]
Dir(children) == [kind |-> "dir", data |-> <<>>, kids |-> children]
Special == [kind |-> "special", data |-> <<>>, kids |-> <<>>]

exists(node) == node.kind # "none"
is_file(node) == node.kind = "file"
is_dir(node) == node.kind = "dir"

X == <<1>>
Y == <<2>>
XY == <<1, 2>>

EmptyDir == Dir(<<>>)
DirOfEmptyDir == Dir(<< <<"sub", EmptyDir>> >>)
DirNestedEmpty == Dir(<< <<"sub", DirOfEmptyDir>>, <<"tmp", EmptyDir>> >>)
DirWithFile == Dir(<< <<"sub", Dir(<< <<"f", File(X)>> >>)>>, <<"tmp", EmptyDir>> >>)
DirTwoFiles == Dir(<< <<"a", File(X)>>, <<"b", File(Y)>> >>)
DirOneFile == Dir(<< <<"a", File(XY)>> >>)

\* sorted(fp for fp in path.rglob("*") if fp.is_file()): the regular files
\* below a node, as <<relative path, bytes>>, in path order (children are
\* kept sorted by name, so a depth-first walk is the sorted order).
RECURSIVE rglob_files(_, _)
rglob_files(node, prefix) ==
    IF is_file(node) THEN << <<prefix, node.data>> >>
    ELSE IF is_dir(node) THEN
        LET RECURSIVE walk(_)
            walk(i) ==
                IF i > Len(node.kids) THEN <<>>
                ELSE rglob_files(node.kids[i][2], Append(prefix, node.kids[i][1]))
                     \o walk(i + 1)
        IN walk(1)
    ELSE <<>>

RECURSIVE concat_bytes(_)
concat_bytes(files) ==
    IF files = <<>> THEN <<>> ELSE files[1][2] \o concat_bytes(Tail(files))

\* hashlib.md5(...).hexdigest(): a digest that is a function of the bytes
\* alone; distinct byte strings get distinct digests.
md5(bytes) == <<"md5", bytes>>
NoHash == <<"null">>
Exit == <<"exit">>

\* get_checksum: Exit stands for msg.fail(..., exits=1).
get_checksum(node) ==
    IF ~(is_file(node) \/ is_dir(node)) THEN Exit
    ELSE IF is_file(node) THEN md5(node.data)
    ELSE md5(concat_bytes(rglob_files(node, <<>>)))

\* A variant that looks at the direct children only.
is_not_empty_dir_shallow(loc) ==
    IF ~is_dir(loc) THEN TRUE ELSE Len(loc.kids) > 0

\* _is_not_empty_dir: a non-directory counts as not empty; a directory is not
\* empty when some child is not an empty directory.
RECURSIVE is_not_empty_dir(_)
is_not_empty_dir(loc) ==
    IF ~is_dir(loc) THEN TRUE
    ELSE IF \E i \in 1..Len(loc.kids) : is_not_empty_dir(loc.kids[i][2]) THEN TRUE
    ELSE FALSE


(***************************************************************************)
(* Remote artifact store.  An artifact is stored under the key             *)
(* <root>/<path>/<command hash>/<content hash>/<timestamp>.                *)
(***************************************************************************)
Paths == {"a.txt", "out"}
OutputPaths == {"out"}
AllPaths == Paths \cup {"log"}
CmdHashes == {"aaaa", "zzzz"}
ContentHashes == {"bbbb", "cccc"}
FileNodes == {File(X), File(Y)}
TreeNodes == {File(X), EmptyDir, DirNestedEmpty, DirWithFile, Special}

Key(a) == [path |-> a.path, ch |-> a.ch, cch |-> a.cch, ts |-> a.ts]
Artifact(key, node) ==
    [path |-> key.path, ch |-> key.ch, cch |-> key.cch, ts |-> key.ts, data |-> node]

\* No location: what push, pull and find return when they return None.
NoUrl == [path |-> None, ch |-> None, cch |-> None, ts |-> 0]
NoArtifact == Artifact(NoUrl, Absent)

\* Variants of upload_file: one that empties the destination's parent
\* directory first, one that opens the destination and writes nothing.
upload_file_clearing_parent(store, src, dest) ==
    {a \in store : [Key(a) EXCEPT !.ts = 0] # [dest EXCEPT !.ts = 0]}
        \cup {Artifact(dest, src)}

upload_file_no_write(store, src, dest) ==
    {a \in store : Key(a) # dest} \cup {Artifact(dest, File(<<>>))}

\* upload_file(src, dest): open dest in mode "wb" (a file already at dest is
\* replaced) and write the bytes read from src.
upload_file(store, src, dest) ==
    {a \in store : Key(a) # dest} \cup {Artifact(dest, src)}

\* download_file(src, dest, force): nothing when dest exists and force is not
\* set; otherwise dest becomes a file with the bytes of src.
download_file(src, dest, force) ==
    IF exists(dest) /\ ~force THEN dest ELSE src

\* The timestamp-qualified key of a push made now.
make_url(path, command_hash, content_hash, now) ==
    [path |-> path, ch |-> command_hash, cch |-> content_hash, ts |-> now]

Candidates(store, path, command_hash, content_hash) ==
    {a \in store :
        /\ a.path = path
        /\ (command_hash # None => a.ch = command_hash)
        /\ (content_hash # None => a.cch = content_hash)}

\* Variants of find: the first instead of the last candidate; the content
\* hash filter dropped when no command hash is given; a fallback to all
\* versions of the path when the filters leave none.
find_oldest(store, path, command_hash, content_hash) ==
    LET urls == Candidates(store, path, command_hash, content_hash)
    IN IF urls = {} THEN NoArtifact
       ELSE CHOOSE a \in urls : \A b \in urls : b.ts >= a.ts

find_ignoring_content_hash(store, path, command_hash, content_hash) ==
    LET urls == Candidates(store, path, command_hash,
                           IF command_hash = None THEN None ELSE content_hash)
    IN IF urls = {} THEN NoArtifact
       ELSE CHOOSE a \in urls : \A b \in urls : b.ts <= a.ts

find_any_version(store, path, command_hash, content_hash) ==
    LET urls == Candidates(store, path, command_hash, content_hash)
        all == Candidates(store, path, None, None)
        pool == IF urls = {} THEN all ELSE urls
    IN IF pool = {} THEN NoArtifact
       ELSE CHOOSE a \in pool : \A b \in pool : b.ts <= a.ts

\* find: the stored versions of path that survive the filters that were
\* supplied; the one with the greatest timestamp, no artifact when there is none.
find(store, path, command_hash, content_hash) ==
    LET urls == Candidates(store, path, command_hash, content_hash)
    IN IF urls = {} THEN NoArtifact
       ELSE CHOOSE a \in urls : \A b \in urls : b.ts <= a.ts

\* What an operation leaves in `last`.
Op(name, path, ch, cch, url) ==
    [op |-> name, path |-> path, ch |-> ch, cch |-> cch, url |-> url,
     present |-> exists(local[path]), stored |-> Cardinality(remote),
     outcome |-> None]

Idle == [op |-> "none", path |-> None, ch |-> None, cch |-> None, url |-> NoUrl,
         present |-> FALSE, stored |-> 0, outcome |-> None]

\* RemoteStorage.push(path, command_hash, content_hash): nothing when the
\* local path does not exist or is a directory without files; otherwise the
\* local bytes are uploaded under a key with a fresh timestamp.
push(path, command_hash, content_hash) ==
    LET loc == local[path]
        url == make_url(path, command_hash, content_hash, clock + 1)
    IN IF ~exists(loc) \/ ~is_not_empty_dir(loc)
       THEN /\ last' = Op("push", path, command_hash, content_hash, NoUrl)
            /\ UNCHANGED <<local, remote, clock, pushlog, lockfile, runs>>
       ELSE /\ clock < MaxPushes
            /\ clock' = clock + 1
            /\ remote' = upload_file(remote, loc, url)
            /\ pushlog' = Append(pushlog, Artifact(url, loc))
            /\ last' = Op("push", path, command_hash, content_hash, url)
            /\ UNCHANGED <<local, lockfile, runs>>

\* RemoteStorage.pull(path, command_hash, content_hash): nothing when find
\* has no candidate; otherwise the selected artifact's bytes are copied to
\* the local path.
pull(path, command_hash, content_hash) ==
    LET url == find(remote, path, command_hash, content_hash)
    IN IF url = NoArtifact
       THEN /\ last' = Op("pull", path, command_hash, content_hash, NoUrl)
            /\ UNCHANGED <<local, remote, clock, pushlog, lockfile, runs>>
       ELSE /\ local' = [local EXCEPT ![path] = download_file(url.data, @, TRUE)]
            /\ last' = Op("pull", path, command_hash, content_hash, Key(url))
            /\ UNCHANGED <<remote, clock, pushlog, lockfile, runs>>

\* The caller writes or removes a local file between the storage operations.
write_local(path, node) ==
    /\ local[path] # node
    /\ local' = [local EXCEPT ![path] = node]
    /\ last' = Idle
    /\ UNCHANGED <<remote, clock, pushlog, lockfile, runs>>

unlink(path) ==
    /\ exists(local[path])
    /\ local' = [local EXCEPT ![path] = Absent]
    /\ last' = Idle
    /\ UNCHANGED <<remote, clock, pushlog, lockfile, runs>>

NoLock == [exists |-> FALSE, data |-> {}]

InitRemote ==
    /\ local = [p \in AllPaths |-> Absent]
    /\ remote = {}
    /\ clock = 0
    /\ pushlog = <<>>
    /\ lockfile = NoLock
    /\ runs = <<>>
    /\ last = Idle

Push == \E p \in Paths, ch \in CmdHashes, cch \in ContentHashes : push(p, ch, cch)
Pull ==
    \E p \in Paths, ch \in CmdHashes \cup {None}, cch \in ContentHashes \cup {None} :
        pull(p, ch, cch)
WriteLocal ==
    \/ \E n \in FileNodes : write_local("a.txt", n)
    \/ write_local("out", File(XY))
Unlink == \E p \in Paths : unlink(p)

NextRemote == Push \/ Pull \/ WriteLocal \/ Unlink

SpecRemote == InitRemote /\ [][NextRemote]_vars


(***************************************************************************)
(* project_push: the body of its loop over a command's outputs.  An output *)
(* is pushed when it exists and is not an empty directory; its content     *)
(* hash is the checksum of the local path (which ends the process for a    *)
(* path that is neither file nor directory).                               *)
(***************************************************************************)
get_content_hash(loc) == get_checksum(loc)

project_push_output(output_path, cmd_hash) ==
    LET output_loc == local[output_path]
    IN IF exists(output_loc) /\ is_not_empty_dir(output_loc)
       THEN IF get_content_hash(output_loc) = Exit
            THEN /\ last' = Op("exit", output_path, cmd_hash, Exit, NoUrl)
                 /\ UNCHANGED <<local, remote, clock, pushlog, lockfile, runs>>
            ELSE push(output_path, cmd_hash, get_content_hash(output_loc))
       ELSE /\ last' = Op("push", output_path, cmd_hash, NoHash, NoUrl)
            /\ UNCHANGED <<local, remote, clock, pushlog, lockfile, runs>>

ProjectPushOutput ==
    \E p \in OutputPaths, ch \in CmdHashes : project_push_output(p, ch)
PushTree == \E p \in OutputPaths, ch \in CmdHashes : push(p, ch, md5(X))
WriteTree == \E p \in OutputPaths, n \in TreeNodes : write_local(p, n)
UnlinkTree == \E p \in OutputPaths : unlink(p)

NextPush == ProjectPushOutput \/ PushTree \/ WriteTree \/ UnlinkTree

SpecPush == InitRemote /\ [][NextPush]_vars


(***************************************************************************)
(* Lock store.  project.lock maps a command name to its lock entry; the    *)
(* mapping is kept as a set of <<name, entry>> pairs.                      *)
(***************************************************************************)
COMMAND == <<"python", "-m", "weasel">>
weasel_version == "__version__"

create ==
    [name |-> "create", script |-> <<"touch out">>, deps |-> <<"a.txt">>,
     outputs |-> <<"out">>, outputs_no_cache |-> <<>>, no_skip |-> FALSE]
check ==
    [name |-> "check", script |-> <<"pytest", "custom.py">>, deps |-> <<"out">>,
     outputs |-> <<>>, outputs_no_cache |-> <<"log">>, no_skip |-> TRUE]
Commands == {create, check}

DepNodes == {File(X), File(Y), Special}
OutNodes == {Absent, File(X), File(Y)}

\* A variant of get_fileinfo that finds no path (md5 always None).
get_fileinfo_no_hash(fs, paths) ==
    [i \in 1..Len(paths) |-> [path |-> paths[i], md5 |-> NoHash]]

\* A variant of get_fileinfo that leaves out the paths that do not exist.
get_fileinfo_skipping_missing(fs, paths) ==
    LET present == SelectSeq(paths, LAMBDA p : exists(fs[p]))
    IN [i \in 1..Len(present) |->
           [path |-> present[i], md5 |-> get_checksum(fs[present[i]])]]

\* get_fileinfo: one {path, md5} per declared path, in declared order; md5 is
\* the checksum of the path when it exists and None (NoHash) when it does
\* not.  An md5 of Exit marks the path at which get_checksum ends the process.
get_fileinfo(fs, paths) ==
    [i \in 1..Len(paths) |->
        [path |-> paths[i],
         md5 |-> IF exists(fs[paths[i]]) THEN get_checksum(fs[paths[i]])
                 ELSE NoHash]]

Exits(fileinfo) == \E i \in 1..Len(fileinfo) : fileinfo[i].md5 = Exit

\* get_lock_entry: the command line, the script, the dependencies and the
\* outputs (cached, then not cached) with their hashes, and the version.
get_lock_entry(fs, command) ==
    LET deps == get_fileinfo(fs, command.deps)
        outs == get_fileinfo(fs, command.outputs)
        outs_nc == get_fileinfo(fs, command.outputs_no_cache)
    IN [cmd |-> COMMAND \o <<"run", command.name>>,
        script |-> command.script,
        deps |-> deps,
        outs |-> outs \o outs_nc,
        spacy_version |-> weasel_version]

EntryExits(entry) == Exits(entry.deps) \/ Exits(entry.outs)

\* srsly.write_yaml(lock_path, data) and srsly.read_yaml(lock_path).
write_yaml(data) == [exists |-> TRUE, data |-> data]
read_yaml(file) == file.data

\* A variant of item assignment that forgets the other keys.
setitem_alone(data, key, value) == {<<key, value>>}

\* data[key] = value on a Python dict.
setitem(data, key, value) ==
    {kv \in data : kv[1] # key} \cup {<<key, value>>}

\* A variant of update_lockfile that writes the new entry alone.
update_lockfile_overwriting(file, fs, command) ==
    IF EntryExits(get_lock_entry(fs, command))
    THEN IF file.exists THEN file ELSE write_yaml({})
    ELSE write_yaml({<<command.name, get_lock_entry(fs, command)>>})

\* update_lockfile: create the lock file when there is none, read the
\* mapping, set the command's entry and write the mapping back.  When
\* get_lock_entry ends the process, a lock file that was just created stays
\* behind empty and nothing else is written.
update_lockfile(file, fs, command) ==
    LET data == IF ~file.exists THEN {} ELSE read_yaml(file)
    IN IF EntryExits(get_lock_entry(fs, command))
       THEN IF file.exists THEN file ELSE write_yaml({})
       ELSE write_yaml(setitem(data, command.name, get_lock_entry(fs, command)))

\* load: the mapping of the lock file, empty when there is no lock file.
load(file) == IF file.exists THEN read_yaml(file) ELSE {}

HasEntry(data, name) == \E kv \in data : kv[1] = name
Entry(data, name) == (CHOOSE kv \in data : kv[1] = name)[2]

\* shouldSkip: the command may be skipped ("skip") when no_skip is not set,
\* the lock file has an entry for the command, the current hash of every
\* dependency is the recorded one and every declared output exists; it must
\* run ("run") otherwise.  "exit": hashing a dependency ended the process.
should_skip(file, fs, command) ==
    IF command.no_skip THEN "run"
    ELSE IF ~HasEntry(load(file), command.name) THEN "run"
    ELSE IF Exits(get_fileinfo(fs, command.deps)) THEN "exit"
    ELSE IF /\ get_fileinfo(fs, command.deps) = Entry(load(file), command.name).deps
            /\ \A i \in 1..Len(command.outputs) : exists(fs[command.outputs[i]])
            /\ \A i \in 1..Len(command.outputs_no_cache) :
                  exists(fs[command.outputs_no_cache[i]])
         THEN "skip"
         ELSE "run"

Declared(command) ==
    {command.outputs[i] : i \in 1..Len(command.outputs)}
        \cup {command.outputs_no_cache[i] : i \in 1..Len(command.outputs_no_cache)}

DepsOf(fs, command) == [i \in 1..Len(command.deps) |-> fs[command.deps[i]]]

Ran(command, outcome) ==
    [op |-> "run", path |-> command.name, ch |-> None, cch |-> None,
     url |-> NoUrl, present |-> outcome = "skipped", stored |-> 0,
     outcome |-> outcome]

\* The executor running one command: skip it when should_skip allows;
\* otherwise execute the script, which may write the declared outputs and
\* may fail; after a successful execution record the lock entry
\* ("lock_exit": hashing a declared path ended the process in the record).
run_skip(command) ==
    /\ should_skip(lockfile, local, command) = "skip"
    /\ last' = Ran(command, "skipped")
    /\ UNCHANGED <<local, remote, clock, pushlog, lockfile, runs>>

run_exit(command) ==
    /\ should_skip(lockfile, local, command) = "exit"
    /\ last' = Ran(command, "exit")
    /\ UNCHANGED <<local, remote, clock, pushlog, lockfile, runs>>

run_fail(command) ==
    /\ should_skip(lockfile, local, command) = "run"
    /\ \E written \in [Declared(command) -> OutNodes] :
          local' = [p \in AllPaths |->
                       IF p \in Declared(command) THEN written[p] ELSE local[p]]
    /\ last' = Ran(command, "failed")
    /\ UNCHANGED <<remote, clock, pushlog, lockfile, runs>>

run_done(command) ==
    /\ should_skip(lockfile, local, command) = "run"
    /\ \E written \in [Declared(command) -> OutNodes] :
          local' = [p \in AllPaths |->
                       IF p \in Declared(command) THEN written[p] ELSE local[p]]
    /\ lockfile' = update_lockfile(lockfile, local', command)
    /\ IF EntryExits(get_lock_entry(local', command))
       THEN /\ last' = Ran(command, "lock_exit")
            /\ runs' = runs
       ELSE /\ last' = Ran(command, "done")
            /\ runs' = [runs EXCEPT ![command.name] =
                           [ok |-> TRUE, deps |-> DepsOf(local', command)]]
    /\ UNCHANGED <<remote, clock, pushlog>>

project_run(command) ==
    \/ run_skip(command)
    \/ run_exit(command)
    \/ run_fail(command)
    \/ run_done(command)

InitLock ==
    /\ local = [p \in AllPaths |-> Absent]
    /\ remote = {}
    /\ clock = 0
    /\ pushlog = <<>>
    /\ lockfile = NoLock
    /\ runs = [n \in {c.name : c \in Commands} |-> [ok |-> FALSE, deps |-> <<>>]]
    /\ last = Idle

Run == \E c \in Commands : project_run(c)
WriteDep == \E n \in DepNodes : write_local("a.txt", n)
WriteOut == \E p \in {"out", "log"}, n \in OutNodes \ {Absent} : write_local(p, n)
UnlinkAny == \E p \in AllPaths : unlink(p)

NextLock == Run \/ WriteDep \/ WriteOut \/ UnlinkAny

SpecLock == InitLock /\ [][NextLock]_vars

(***************************************************************************)
(* Properties of the remote artifact store.                                *)
(***************************************************************************)
Max(S) == CHOOSE x \in S : \A y \in S : y <= x

\* The pushes in the history that a pull with these arguments selects from.
LogMatches(log, path, ch, cch) ==
    {i \in 1..Len(log) :
        /\ log[i].path = path
        /\ (ch # None => log[i].ch = ch)
        /\ (cch # None => log[i].cch = cch)}

LastPulls == last.op = "pull"
LastMatches == LogMatches(pushlog, last.path, last.ch, last.cch)

\* C1: round trip: after push(p, ch, cch), the removal of the local copy and
\* then pull(p, ch, cch), with no other push to that triple in between, the
\* local path p holds exactly the bytes that were pushed (the bytes the local
\* path had at the push).
RoundTrip ==
    (LastPulls /\ last.ch # None /\ last.cch # None /\ ~last.present) =>
        \A i \in LastMatches :
            (\A j \in LastMatches : j <= i) => local[last.path] = pushlog[i].data

RoundTripWitness ==
    /\ LastPulls /\ last.ch # None /\ last.cch # None /\ ~last.present
    /\ LastMatches # {}
    /\ last.url # NoUrl
    /\ local[last.path] = File(Y)
    /\ Len(pushlog) = 2
    /\ pushlog[1].path = last.path /\ pushlog[1].data = File(X)

\* C2: latest wins: a pull restores, among the pushed versions of the path
\* that survive the supplied filters, the most recently pushed one (the one
\* with the greatest timestamp), whatever the order of the hashes.
LatestWins ==
    (LastPulls /\ LastMatches # {}) =>
        LET newest == pushlog[Max(LastMatches)]
        IN /\ last.url = Key(newest)
           /\ \A i \in LastMatches : pushlog[i].ts <= last.url.ts
           /\ local[last.path] = newest.data

LatestWinsWitness ==
    /\ LastPulls /\ last.ch = "aaaa" /\ last.cch = None
    /\ Len(pushlog) = 2
    /\ LastMatches = {1, 2}
    /\ pushlog[1].cch = "cccc" /\ pushlog[1].data = File(X)
    /\ pushlog[2].cch = "bbbb" /\ pushlog[2].data = File(Y)
    /\ local[last.path] = File(Y)

\* C3: filter exactness: the artifact a pull restores has the requested
\* path, the requested command hash when one is supplied and the requested
\* content hash when one is supplied; a content hash without a command hash
\* selects across all command hashes.
FilterExact ==
    LastPulls =>
        /\ last.url # NoUrl =>
              /\ last.url.path = last.path
              /\ (last.ch # None => last.url.ch = last.ch)
              /\ (last.cch # None => last.url.cch = last.cch)
              /\ local[last.path] = pushlog[last.url.ts].data
              /\ Key(pushlog[last.url.ts]) = last.url
        /\ (last.ch = None /\ last.cch # None
              /\ \E i \in 1..Len(pushlog) :
                    pushlog[i].path = last.path /\ pushlog[i].cch = last.cch)
           => last.url # NoUrl

FilterExactWitness ==
    /\ LastPulls /\ last.ch = None /\ last.cch = "cccc"
    /\ last.url # NoUrl /\ last.url.ch = "zzzz" /\ last.url.ts = 1
    /\ Len(pushlog) = 2
    /\ pushlog[2].path = last.path /\ pushlog[2].cch = "bbbb" /\ pushlog[2].ch = "aaaa"
    /\ pushlog[2].data # pushlog[1].data

\* C4: append-only store: every artifact written by an earlier push is still
\* stored under its key with the bytes it was pushed with; a step never
\* removes or changes a stored artifact and a pull leaves the store as it is.
AppendOnly ==
    /\ [](\A i \in 1..Len(pushlog) : pushlog[i] \in remote)
    /\ [][/\ remote \subseteq remote'
          /\ last'.op = "pull" => remote' = remote]_vars

AppendOnlyWitness ==
    /\ LastPulls /\ last.url # NoUrl
    /\ Len(pushlog) = 2
    /\ [Key(pushlog[1]) EXCEPT !.ts = 0] = [Key(pushlog[2]) EXCEPT !.ts = 0]
    /\ pushlog[1].data # pushlog[2].data
    /\ pushlog[1] \in remote /\ pushlog[2] \in remote

\* C5: a pull for which no stored version survives the filters (also when
\* the backend holds nothing at all) returns no location and leaves the
\* local files and the store unchanged.
PullMissNoop ==
    [][(last'.op = "pull"
          /\ LogMatches(pushlog', last'.path, last'.ch, last'.cch) = {})
       => (last'.url = NoUrl /\ local' = local /\ remote' = remote)]_vars

PullMissWitness ==
    /\ LastPulls /\ last.url = NoUrl
    /\ LastMatches = {}
    /\ \E i \in 1..Len(pushlog) : pushlog[i].path = last.path
    /\ exists(local[last.path])

\* The regular files below a node, computed from the tree itself.
RECURSIVE HasFile(_)
HasFile(node) ==
    \/ node.kind = "file"
    \/ node.kind = "dir" /\ \E i \in 1..Len(node.kids) : HasFile(node.kids[i][2])

\* C6: no-op push: a push of a path that does not exist locally, or that is
\* a directory with no file at any depth, stores no artifact and returns no
\* location.
NoopPush ==
    (last.op = "push"
       /\ (~exists(local[last.path])
             \/ (local[last.path].kind = "dir" /\ ~HasFile(local[last.path]))))
    => /\ last.url = NoUrl
       /\ Cardinality(remote) = last.stored
       /\ \A a \in remote : a.ts # clock + 1

NoopPushWitness ==
    /\ last.op = "push" /\ last.url = NoUrl
    /\ local[last.path] = DirNestedEmpty
    /\ remote # {}

\* C7: a push under an already used (path, command hash, content hash)
\* creates a new version: the store holds one more artifact than before,
\* the new one has a later timestamp than every other version of the triple
\* and the earlier versions are still stored.
SameTriple(a, url) == a.path = url.path /\ a.ch = url.ch /\ a.cch = url.cch

RePushNewVersion ==
    (last.op = "push" /\ exists(local[last.path])) =>
        /\ last.url # NoUrl
        /\ Cardinality(remote) = last.stored + 1
        /\ \E a \in remote : Key(a) = last.url /\ a.data = local[last.path]
        /\ \A a \in remote :
              (SameTriple(a, last.url) /\ Key(a) # last.url) => a.ts < last.url.ts
        /\ Cardinality({a \in remote : SameTriple(a, last.url)})
              = Cardinality({i \in 1..Len(pushlog) : SameTriple(pushlog[i], last.url)})

RePushWitness ==
    /\ last.op = "push" /\ last.url # NoUrl
    /\ Cardinality({a \in remote : SameTriple(a, last.url)}) = 2
    /\ \E a, b \in remote : a.ts < b.ts /\ a.data = b.data /\ SameTriple(a, b)


(***************************************************************************)
(* Properties of the lock store.                                           *)
(***************************************************************************)
CommandNamed(name) == CHOOSE c \in Commands : c.name = name
EntriesOf(file, name) == {kv \in load(file) : kv[1] = name}
CurrentHash(node) == IF exists(node) THEN get_checksum(node) ELSE NoHash
OutputsExist(c) == \A p \in Declared(c) : exists(local[p])
Executed(outcome) == outcome \in {"done", "failed", "lock_exit"}

\* C8: shouldSkip answers true only if no_skip is not set, the lock file has
\* an entry for the command, the current content hash of every declared
\* dependency equals the hash in that entry and every declared output
\* exists; a command is skipped in no other case.
ShouldSkipOnlyIf ==
    (last.op = "run" /\ last.outcome = "skipped") =>
        LET c == CommandNamed(last.path)
        IN /\ ~c.no_skip
           /\ lockfile.exists
           /\ runs[c.name].ok
           /\ EntriesOf(lockfile, c.name) # {}
           /\ \A kv \in EntriesOf(lockfile, c.name) :
                 /\ Len(kv[2].deps) = Len(c.deps)
                 /\ \A i \in 1..Len(c.deps) :
                       /\ kv[2].deps[i].path = c.deps[i]
                       /\ kv[2].deps[i].md5 = CurrentHash(local[c.deps[i]])
           /\ OutputsExist(c)

ShouldSkipWitness ==
    /\ last.op = "run" /\ last.outcome = "skipped" /\ last.path = "create"
    /\ local["a.txt"] = File(Y)
    /\ local["out"] = File(X)
    /\ EntriesOf(lockfile, "check") # {}

RecordReplacesOnlyOwnEntry ==
    /\ [](\A c \in Commands : Cardinality(EntriesOf(lockfile, c.name)) <= 1)
    /\ [][\A c \in Commands :
             EntriesOf(lockfile', c.name) # EntriesOf(lockfile, c.name)
             => (last'.op = "run" /\ last'.path = c.name
                   /\ last'.outcome = "done")]_vars

RecordWitness ==
    /\ last.op = "run" /\ last.outcome = "done" /\ last.path = "create"
    /\ EntriesOf(lockfile, "check") # {}
    /\ \E kv \in EntriesOf(lockfile, "create") :
          kv[2].deps[1].md5 = md5(Y) /\ kv[2].outs[1].md5 = NoHash
    /\ Cardinality(lockfile.data) = 2


(***************************************************************************)
(* update_lockfile step by step.  The process may stop (be killed, lose    *)
(* power) between any two steps; `last` then holds the position of the     *)
(* record, the mapping it has in memory and the lock file as it was when   *)
(* the record began.                                                       *)
(***************************************************************************)
Recording(command, pc, data, before) ==
    [op |-> "record", path |-> command.name, pc |-> pc, data |-> data,
     before |-> before]

InProgress ==
    last.op = "record" /\ last.pc \notin {"done", "exit", "crashed"}

At(command, pc) ==
    last.op = "record" /\ last.path = command.name /\ last.pc = pc

\* file_path.open("w"): the file exists and is empty until the data is written.
open_w(file) == [exists |-> TRUE, data |-> {}]

\* lock_path = current_dir / PROJECT_LOCK; if not lock_path.exists(): ...
record_start(command) ==
    /\ ~InProgress
    /\ last' = Recording(command, IF lockfile.exists THEN "read" ELSE "create",
                         {}, lockfile)
    /\ UNCHANGED <<local, remote, clock, pushlog, lockfile, runs>>

\* srsly.write_yaml(lock_path, {}); data = {}
record_create(command) ==
    /\ At(command, "create")
    /\ lockfile' = write_yaml({})
    /\ last' = [last EXCEPT !.pc = "merge", !.data = {}]
    /\ UNCHANGED <<local, remote, clock, pushlog, runs>>

\* data = srsly.read_yaml(lock_path)
record_read(command) ==
    /\ At(command, "read")
    /\ last' = [last EXCEPT !.pc = "merge", !.data = read_yaml(lockfile)]
    /\ UNCHANGED <<local, remote, clock, pushlog, lockfile, runs>>

\* data[command["name"]] = get_lock_entry(current_dir, command)
record_merge(command) ==
    /\ At(command, "merge")
    /\ IF EntryExits(get_lock_entry(local, command))
       THEN last' = [last EXCEPT !.pc = "exit"]
       ELSE last' = [last EXCEPT !.pc = "open",
                        !.data = setitem(@, command.name,
                                         get_lock_entry(local, command))]
    /\ UNCHANGED <<local, remote, clock, pushlog, lockfile, runs>>

\* srsly.write_yaml(lock_path, data): the file is opened for writing in
\* place, which truncates it, ...
record_open(command) ==
    /\ At(command, "open")
    /\ lockfile' = open_w(lockfile)
    /\ last' = [last EXCEPT !.pc = "write"]
    /\ UNCHANGED <<local, remote, clock, pushlog, runs>>

\* ... and the mapping is written to it.
record_write(command) ==
    /\ At(command, "write")
    /\ lockfile' = write_yaml(last.data)
    /\ last' = [last EXCEPT !.pc = "done"]
    /\ UNCHANGED <<local, remote, clock, pushlog, runs>>

\* The process stops where it is; the lock file stays as it is on disk.
crash ==
    /\ InProgress
    /\ last' = [last EXCEPT !.pc = "crashed"]
    /\ UNCHANGED <<local, remote, clock, pushlog, lockfile, runs>>

WriteDepIdle == ~InProgress /\ \E n \in DepNodes : write_local("a.txt", n)
WriteOutIdle == ~InProgress /\ write_local("out", File(X))

NextCrash ==
    \/ \E c \in Commands :
          \/ record_start(c) \/ record_create(c) \/ record_read(c)
          \/ record_merge(c) \/ record_open(c) \/ record_write(c)
    \/ crash
    \/ WriteDepIdle
    \/ WriteOutIdle

SpecCrash == InitLock /\ [][NextCrash]_vars

\* C11: record writes the lock mapping back atomically: when the process
\* stops at any point of a record, the lock file holds either the complete
\* mapping it held before the record or the complete new mapping (the old
\* one with the command's entry replaced); the entries of the other commands
\* are as they were.
RecordAtomic ==
    (last.op = "record" /\ last.pc = "crashed") =>
        LET c == CommandNamed(last.path)
            old == load(last.before)
            new == setitem(old, c.name, get_lock_entry(local, c))
        IN /\ load(lockfile) \in {old, new}
           /\ \A d \in Commands :
                 d.name # c.name =>
                     EntriesOf(lockfile, d.name) = EntriesOf(last.before, d.name)

\* C12: a lock entry is created or overwritten only after its command has
\* finished executing successfully: a step changes the entry stored for a
\* command only when it is a run of that command that executed it with
\* success, and the entry then describes the files as the execution left
\* them; a run that fails, is skipped or stops, and every step that is not a
\* run of the command, leaves the command's entry unchanged.
RecordOnlyAfterSuccess ==
    [][\A c \in Commands :
          IF last'.op = "run" /\ last'.path = c.name /\ last'.outcome = "done"
          THEN \A kv \in EntriesOf(lockfile', c.name) :
                  /\ Len(kv[2].outs) = Len(c.outputs \o c.outputs_no_cache)
                  /\ \A i \in 1..Len(kv[2].outs) :
                        kv[2].outs[i].md5 = CurrentHash(local'[kv[2].outs[i].path])
          ELSE EntriesOf(lockfile', c.name) = EntriesOf(lockfile, c.name)]_vars

RecordOnlyAfterSuccessWitness ==
    /\ last.op = "run" /\ last.path = "create" /\ last.outcome = "failed"
    /\ local["a.txt"] = File(Y)
    /\ local["out"] = File(Y)
    /\ \E kv \in EntriesOf(lockfile, "create") :
          kv[2].deps[1].md5 = md5(X) /\ kv[2].outs[1].md5 = md5(X)
    /\ EntriesOf(lockfile, "check") # {}

\* C13: record does not fail because a declared dependency or output is
\* missing: a record stops only at a declared path that exists and is neither
\* file nor directory, and the recorded entry lists every declared path, in
\* declared order (dependencies; outputs, then outputs_no_cache), with the
\* null hash where the path does not exist and the hash of its current bytes
\* where it does.
Listed(fileinfo, paths) ==
    /\ Len(fileinfo) = Len(paths)
    /\ \A i \in 1..Len(paths) :
          /\ fileinfo[i].path = paths[i]
          /\ fileinfo[i].md5 = IF local[paths[i]].kind = "none" THEN NoHash
                               ELSE md5(local[paths[i]].data)

RecordToleratesMissing ==
    /\ (last.op = "run" /\ last.outcome = "lock_exit") =>
          LET c == CommandNamed(last.path)
          IN \E p \in Declared(c) \cup {c.deps[i] : i \in 1..Len(c.deps)} :
                local[p].kind = "special"
    /\ (last.op = "run" /\ last.outcome = "done") =>
          LET c == CommandNamed(last.path)
          IN /\ EntriesOf(lockfile, c.name) # {}
             /\ \A kv \in EntriesOf(lockfile, c.name) :
                   /\ Listed(kv[2].deps, c.deps)
                   /\ Listed(kv[2].outs, c.outputs \o c.outputs_no_cache)

RecordToleratesMissingWitness ==
    /\ last.op = "run" /\ last.path = "check" /\ last.outcome = "done"
    /\ ~exists(local["out"])
    /\ local["log"] = File(X)
    /\ \E kv \in EntriesOf(lockfile, "check") :
          /\ kv[2].deps = << [path |-> "out", md5 |-> NoHash] >>
          /\ kv[2].outs = << [path |-> "log", md5 |-> md5(X)] >>


(***************************************************************************)
(* Paths.  A path is a string, kept as its sequence of characters; the     *)
(* disk maps the real paths that matter to nodes, where a node may also be *)
(* a symbolic link to an absolute path.                                    *)
(***************************************************************************)
sep == <<"/">>
pardir == <<".", ".">>
tmp == <<"t", "m", "p">>
tmpdir == tmp \o <<"d", "i", "r">>
subdir == <<"s", "u", "b", "d", "i", "r">>
lnk == <<"l", "n", "k">>

Tmp == sep \o tmp                               \* "/tmp"
TmpSubdir == Tmp \o sep \o subdir               \* "/tmp/subdir"
TmpSubdirUp == TmpSubdir \o sep \o pardir       \* "/tmp/subdir/.."
TmpUp == Tmp \o sep \o pardir                   \* "/tmp/.."
Tmpdir == sep \o tmpdir                         \* "/tmpdir"
TmpLnk == Tmp \o sep \o lnk                     \* "/tmp/lnk"
TmpLnkTmpdir == TmpLnk \o sep \o tmpdir         \* "/tmp/lnk/tmpdir"

Symlink(target) == [kind |-> "link", data |-> target, kids |-> <<>>]

\* path.split(sep) without the empty pieces: the components of a path.
split(path) ==
    LET RECURSIVE scan(_, _, _)
        scan(i, cur, acc) ==
            LET closed == IF cur = <<>> THEN acc ELSE Append(acc, cur)
            IN IF i > Len(path) THEN closed
               ELSE IF path[i] = "/" THEN scan(i + 1, <<>>, closed)
               ELSE scan(i + 1, Append(cur, path[i]), acc)
    IN scan(1, <<>>, <<>>)

\* The absolute path with these components.
RECURSIVE join(_)
join(parts) ==
    IF parts = <<>> THEN sep
    ELSE IF Len(parts) = 1 THEN sep \o parts[1]
    ELSE join(SubSeq(parts, 1, Len(parts) - 1)) \o sep \o parts[Len(parts)]

\* os.path.realpath of an absolute path: the components are taken from the
\* left; ".." drops the last one (the parent of the root is the root) and a
\* prefix that is a symbolic link is replaced by the link's target.
RECURSIVE resolve(_, _, _)
resolve(fs, done, rest) ==
    IF rest = <<>> THEN done
    ELSE IF Head(rest) = pardir
         THEN resolve(fs, IF done = <<>> THEN <<>>
                          ELSE SubSeq(done, 1, Len(done) - 1), Tail(rest))
    ELSE LET here == join(Append(done, Head(rest)))
         IN IF here \in DOMAIN fs /\ fs[here].kind = "link"
            THEN resolve(fs, <<>>, split(fs[here].data) \o Tail(rest))
            ELSE resolve(fs, Append(done, Head(rest)), Tail(rest))

realpath(fs, path) == join(resolve(fs, <<>>, split(path)))

\* os.path.commonpath([a, b]) of two absolute paths: the longest common
\* sequence of whole components.
commonpath(a, b) ==
    LET pa == split(a)
        pb == split(b)
        RECURSIVE common(_)
        common(i) ==
            IF i > Len(pa) \/ i > Len(pb) THEN i - 1
            ELSE IF pa[i] # pb[i] THEN i - 1
            ELSE common(i + 1)
    IN join(SubSeq(pa, 1, common(1)))

\* Variants of is_subpath_of: one that compares characters instead of
\* components, one that does not resolve the paths.
is_subpath_of_commonprefix(fs, parent, child) ==
    LET a == realpath(fs, parent)
        b == realpath(fs, child)
        RECURSIVE common(_)
        common(i) ==
            IF i > Len(a) \/ i > Len(b) THEN i - 1
            ELSE IF a[i] # b[i] THEN i - 1
            ELSE common(i + 1)
    IN SubSeq(a, 1, common(1)) = a

is_subpath_of_unresolved(fs, parent, child) ==
    commonpath(parent, child) = join(split(parent))

\* is_subpath_of(parent, child)
is_subpath_of(fs, parent, child) ==
    LET parent_realpath == realpath(fs, parent)
        child_realpath == realpath(fs, child)
    IN commonpath(parent_realpath, child_realpath) = parent_realpath

MaxEntries == 2     \* entries per restored payload

\* The real paths a restore can reach: the link "/tmp/lnk" and the files
\* "/tmp/a", "/tmp/subdir/x", "/tmp/lnk/x", "/x", "/tmpdir/c".
DiskPaths ==
    {TmpLnk, Tmp \o sep \o <<"a">>, TmpSubdir \o sep \o <<"x">>,
     TmpLnk \o sep \o <<"x">>, sep \o <<"x">>, Tmpdir \o sep \o <<"c">>}

\* The names of the entries of a payload, relative to the target directory:
\* "a", "../x", "../tmpdir/c", "lnk/x".
EntryNames ==
    {<<"a">>, pardir \o sep \o <<"x">>,
     pardir \o sep \o tmpdir \o sep \o <<"c">>, lnk \o sep \o <<"x">>}

Payloads == UNION {[1..n -> EntryNames] : n \in 1..MaxEntries}

\* os.path.join(root, name)
Dest(root, name) == root \o sep \o name

\* Restoring a payload of several entries into the target directory: every
\* entry's destination is checked first; when one of them is not inside the
\* target, nothing is written (PathTraversal); otherwise every entry is
\* written to the place its destination resolves to.
Unsafe(fs, root, payload) ==
    \E i \in 1..Len(payload) : ~is_subpath_of(fs, root, Dest(root, payload[i]))

safe_extract(fs, root, payload) ==
    LET written == {realpath(fs, Dest(root, payload[i])) : i \in 1..Len(payload)}
    IN IF Unsafe(fs, root, payload) THEN fs
       ELSE [p \in DOMAIN fs |-> IF p \in written THEN File(X) ELSE fs[p]]

restore(root, payload) ==
    /\ local' = safe_extract(local, root, payload)
    /\ last' = [op |-> "restore", root |-> root, payload |-> payload,
                outcome |-> IF Unsafe(local, root, payload) THEN "PathTraversal"
                            ELSE "restored"]
    /\ UNCHANGED <<remote, clock, pushlog, lockfile, runs>>

check_subpath(parent, child) ==
    /\ last' = [op |-> "is_subpath_of", parent |-> parent, child |-> child,
                result |-> is_subpath_of(local, parent, child)]
    /\ UNCHANGED <<local, remote, clock, pushlog, lockfile, runs>>

InitPaths ==
    /\ local \in {[p \in DiskPaths |-> IF p = TmpLnk THEN l ELSE Absent] :
                    l \in {Absent, Symlink(sep), Symlink(TmpSubdir)}}
    /\ remote = {}
    /\ clock = 0
    /\ pushlog = <<>>
    /\ lockfile = NoLock
    /\ runs = <<>>
    /\ last = Idle

NextPaths ==
    \/ \E parent \in {Tmp, sep, TmpSubdir, TmpLnk},
          child \in {Tmp, TmpSubdir, TmpSubdirUp, sep, TmpUp, Tmpdir, TmpLnk,
                     TmpLnkTmpdir} :
          check_subpath(parent, child)
    \/ \E payload \in Payloads : restore(Tmp, payload)

SpecPaths == InitPaths /\ [][NextPaths]_vars

(***************************************************************************)
(* Properties of the path checks.                                          *)
(***************************************************************************)
\* A path with components q is the path with components p, or below it.
Below(p, q) == Len(p) <= Len(q) /\ SubSeq(q, 1, Len(p)) = p

Resolved(path) == resolve(local, <<>>, split(path))

\* C15: is_subpath_of(parent, child) is true exactly when child, with its
\* ".." components and symbolic links resolved, is the parent directory
\* itself or a path below it.  From /tmp: true for /tmp, /tmp/subdir and
\* /tmp/subdir/..; false for /, for /tmp/.. and for /tmpdir, whose name only
\* starts with the parent's; a path through a link is judged by where the
\* link leads.
SubpathExact ==
    last.op = "is_subpath_of" =>
        /\ last.result <=> Below(Resolved(last.parent), Resolved(last.child))
        /\ last.parent = Tmp =>
              /\ last.child \in {Tmp, TmpSubdir, TmpSubdirUp} => last.result
              /\ last.child \in {sep, TmpUp, Tmpdir} => ~last.result
              /\ (last.child = TmpLnkTmpdir /\ local[TmpLnk] = Symlink(sep))
                    => ~last.result
              /\ (last.child = TmpLnkTmpdir /\ local[TmpLnk] = Symlink(TmpSubdir))
                    => last.result

SubpathExactWitness ==
    /\ last.op = "is_subpath_of"
    /\ last.parent = Tmp /\ last.child = Tmpdir
    /\ ~last.result
    /\ local[TmpLnk] = Absent

\* C14: path safety: when a payload of several entries is restored into the
\* target directory and some entry's destination resolves outside the
\* target, the restore fails with PathTraversal and no file has been
\* written; a restore writes only to paths strictly inside the target, and
\* when every destination is inside, every entry is written.
Inside(root, path) ==
    /\ Below(Resolved(root), Resolved(path))
    /\ Resolved(root) # Resolved(path)

HashTrees ==
    {EmptyDir, DirOfEmptyDir, DirNestedEmpty, DirWithFile, DirTwoFiles,
     DirOneFile,
     Dir(<< <<"a", File(X)>> >>),
     Dir(<< <<"b", File(X)>> >>),
     Dir(<< <<"a", File(Y)>> >>),
     Dir(<< <<"a", File(X)>>, <<"b", File(<<>>)>> >>),
     Dir(<< <<"sub", Dir(<< <<"a", File(X)>> >>)>> >>)}

\* get_checksum(path), a change of the directory's content, get_checksum(path).
rehash(path, tree) ==
    /\ local[path] # tree
    /\ local' = [local EXCEPT ![path] = tree]
    /\ last' = [op |-> "hash", path |-> path, old |-> local[path],
                before |-> get_checksum(local[path]),
                after |-> get_checksum(tree)]
    /\ UNCHANGED <<remote, clock, pushlog, lockfile, runs>>

InitHash ==
    /\ local \in {[p \in AllPaths |-> IF p = "out" THEN t ELSE Absent] :
                    t \in HashTrees}
    /\ remote = {}
    /\ clock = 0
    /\ pushlog = <<>>
    /\ lockfile = NoLock
    /\ runs = <<>>
    /\ last = Idle

NextHash == \E t \in HashTrees : rehash("out", t)

SpecHash == InitHash /\ [][NextHash]_vars

\* The regular files below a directory: their relative paths and bytes.
RECURSIVE FilesOf(_, _)
FilesOf(node, prefix) ==
    IF node.kind = "file" THEN {<<prefix, node.data>>}
    ELSE IF node.kind = "dir"
         THEN UNION {FilesOf(node.kids[i][2], Append(prefix, node.kids[i][1])) :
                        i \in 1..Len(node.kids)}
    ELSE {}

\* C16: the digest of a directory changes if and only if the set of regular
\* files below it (at any depth, by relative path) changes or the bytes of
\* one of them change; adding, removing or renaming a file changes it.
TreeHashSensitive ==
    last.op = "hash" =>
        ((last.before # last.after)
            <=> (FilesOf(last.old, <<>>) # FilesOf(local[last.path], <<>>)))


(***************************************************************************)
(* Command fingerprint.  project_push computes the command hash of every   *)
(* command from its script and its dependencies; `last` holds the latest   *)
(* computation and `runs` an earlier one that is kept for comparison.      *)
(***************************************************************************)
\* The order of the dependency paths as strings.
PathRank == [p \in AllPaths |-> IF p = "a.txt" THEN 1 ELSE IF p = "log" THEN 2 ELSE 3]

sorted(paths) == SortSeq(paths, LAMBDA p, q : PathRank[p] < PathRank[q])

\* The hash of a dependency: its checksum, the null hash when it is missing.
dep_hash(node) == IF exists(node) THEN get_checksum(node) ELSE NoHash

\* Variants of get_command_hash: the dependency hashes combined in the order
\* given by the caller; the script lines combined without their order; every
\* dependency handed to get_checksum, missing or not.
get_command_hash_unsorted(name, help, fs, deps, script) ==
    LET hashes == [i \in 1..Len(deps) |-> dep_hash(fs[deps[i]])]
    IN IF \E i \in 1..Len(hashes) : hashes[i] = Exit THEN Exit
       ELSE md5(<<name, help, script, hashes>>)

get_command_hash_unordered_script(name, help, fs, deps, script) ==
    LET hashes == [i \in 1..Len(deps) |-> dep_hash(fs[sorted(deps)[i]])]
    IN IF \E i \in 1..Len(hashes) : hashes[i] = Exit THEN Exit
       ELSE md5(<<name, help, {script[i] : i \in 1..Len(script)}, hashes>>)

get_command_hash_no_sentinel(name, help, fs, deps, script) ==
    LET hashes == [i \in 1..Len(deps) |-> get_checksum(fs[sorted(deps)[i]])]
    IN IF \E i \in 1..Len(hashes) : hashes[i] = Exit THEN Exit
       ELSE md5(<<name, help, script, hashes>>)

\* get_command_hash: a digest of the two leading arguments, the script lines
\* in their order and the hash of every dependency, taken per path in the
\* order of the paths; it ends the process where get_checksum does.
get_command_hash(name, help, fs, deps, script) ==
    LET hashes == [i \in 1..Len(deps) |-> dep_hash(fs[sorted(deps)[i]])]
    IN IF \E i \in 1..Len(hashes) : hashes[i] = Exit THEN Exit
       ELSE md5(<<name, help, script, hashes>>)

\* A variant of the call in project_push that passes the command's name and
\* help text.
cmd_hash_named(fs, cmd) ==
    get_command_hash(cmd.name, cmd.help, fs, cmd.deps, cmd.script)

\* cmd_hash = get_command_hash("", "", [project_dir / dep for dep in
\* cmd.get("deps", [])], cmd["script"])
cmd_hash(fs, cmd) == get_command_hash("", "", fs, cmd.deps, cmd.script)

\* The commands of two projects: the same scripts and dependency lists under
\* different names and help texts, in different project directories.
FpCommands ==
    {[name |-> v[1], help |-> v[2], project_dir |-> v[3], script |-> s, deps |-> d] :
        v \in {<<"create", "Create the output", "/home/me/project">>,
               <<"build", "Build it", "/srv/ci/checkout">>},
        s \in {<<"python a.py", "python b.py">>, <<"python b.py", "python a.py">>},
        d \in {<<"a.txt", "out">>, <<"out", "a.txt">>, <<"a.txt">>}}

\* What a computation leaves in `last`: the command, its dependencies as they
\* are on disk and the result.
Fingerprinted(op, cmd, hash) ==
    [op |-> op, path |-> cmd.name, cmd |-> cmd,
     content |-> {<<cmd.deps[i], local[cmd.deps[i]]>> : i \in 1..Len(cmd.deps)},
     hash |-> hash]

\* The earlier computation kept for comparison: the one kept so far or the
\* latest one.
Kept == {runs} \cup (IF last.op \in {"cmd_hash", "fingerprint"} THEN {last} ELSE {})

\* project_push, for one command: its outputs are skipped when one of its
\* dependencies is missing; otherwise the command hash is computed.
project_push_cmd(cmd) ==
    /\ last' = Fingerprinted("cmd_hash", cmd,
                  IF \E i \in 1..Len(cmd.deps) : ~exists(local[cmd.deps[i]])
                  THEN <<"skipped">>
                  ELSE cmd_hash(local, cmd))
    /\ runs' \in Kept
    /\ UNCHANGED <<local, remote, clock, pushlog, lockfile>>

\* fingerprint(script, dependencyPaths), called for a command whatever the
\* state of its dependencies.
fingerprint(cmd) ==
    /\ last' = Fingerprinted("fingerprint", cmd, cmd_hash(local, cmd))
    /\ runs' \in Kept
    /\ UNCHANGED <<local, remote, clock, pushlog, lockfile>>

InitFingerprint ==
    /\ local = [p \in AllPaths |-> Absent]
    /\ remote = {}
    /\ clock = 0
    /\ pushlog = <<>>
    /\ lockfile = NoLock
    /\ runs = Idle
    /\ last = Idle

NextFingerprint ==
    \/ \E cmd \in FpCommands : project_push_cmd(cmd)
    \/ \E cmd \in FpCommands : fingerprint(cmd)
    \/ \E n \in DepNodes : write_local("a.txt", n)
    \/ write_local("out", File(X))
    \/ \E p \in {"a.txt", "out"} : unlink(p)

SpecFingerprint == InitFingerprint /\ [][NextFingerprint]_vars

(***************************************************************************)
(* Properties of the command fingerprint.                                  *)
(***************************************************************************)
Computed(r) == r.op \in {"cmd_hash", "fingerprint"} /\ r.hash[1] = "md5"
Lines(script) == {script[i] : i \in 1..Len(script)}
Missing(r) == {kv \in r.content : kv[2].kind = "none"}

\* C17: the command fingerprint depends only on the script lines and the
\* bytes of the dependencies: two computations for the same script and the
\* same dependencies with the same bytes give the same fingerprint, whatever
\* the commands' names and help texts, the project directory and the moment
\* of the computation.
FingerprintOnlyScriptAndDeps ==
    (/\ Computed(last) /\ Computed(runs)
     /\ last.cmd.script = runs.cmd.script
     /\ last.cmd.deps = runs.cmd.deps
     /\ last.content = runs.content)
    => last.hash = runs.hash

FingerprintOnlyScriptAndDepsWitness ==
    /\ Computed(last) /\ Computed(runs)
    /\ last.op = "cmd_hash"
    /\ last.cmd.name # runs.cmd.name
    /\ last.cmd.help # runs.cmd.help
    /\ last.cmd.project_dir # runs.cmd.project_dir
    /\ last.cmd.script = runs.cmd.script
    /\ last.cmd.deps = <<"a.txt", "out">> /\ runs.cmd.deps = <<"a.txt", "out">>
    /\ last.content = runs.content
    /\ last.content = {<<"a.txt", File(Y)>>, <<"out", File(X)>>}
    /\ last.hash = runs.hash

\* C18: the fingerprint does not depend on the order of the dependency list:
\* two computations for the same script whose dependency lists are
\* permutations of each other, with the same bytes, give the same fingerprint.
DepsOrderInsensitive ==
    (/\ Computed(last) /\ Computed(runs)
     /\ last.cmd.script = runs.cmd.script
     /\ Len(last.cmd.deps) = Len(runs.cmd.deps)
     /\ Lines(last.cmd.deps) = Lines(runs.cmd.deps)
     /\ last.content = runs.content)
    => last.hash = runs.hash

DepsOrderInsensitiveWitness ==
    /\ Computed(last) /\ Computed(runs)
    /\ last.cmd.script = runs.cmd.script
    /\ last.cmd.deps = <<"out", "a.txt">> /\ runs.cmd.deps = <<"a.txt", "out">>
    /\ last.content = {<<"a.txt", File(Y)>>, <<"out", File(X)>>}
    /\ runs.content = last.content
    /\ last.hash = runs.hash

\* C19: the fingerprint depends on the order of the script lines: two
\* computations for the same dependencies with the same bytes, whose scripts
\* hold the same two or more distinct lines in a different order, give
\* different fingerprints.
ScriptOrderSensitive ==
    (/\ Computed(last) /\ Computed(runs)
     /\ last.cmd.deps = runs.cmd.deps
     /\ last.content = runs.content
     /\ Lines(last.cmd.script) = Lines(runs.cmd.script)
     /\ Cardinality(Lines(last.cmd.script)) >= 2
     /\ Cardinality(Lines(last.cmd.script)) = Len(last.cmd.script)
     /\ Len(runs.cmd.script) = Len(last.cmd.script)
     /\ last.cmd.script # runs.cmd.script)
    => last.hash # runs.hash

ScriptOrderSensitiveWitness ==
    /\ Computed(last) /\ Computed(runs)
    /\ last.cmd.deps = runs.cmd.deps
    /\ last.content = runs.content
    /\ last.cmd.name = runs.cmd.name
    /\ last.cmd.script = <<"python b.py", "python a.py">>
    /\ runs.cmd.script = <<"python a.py", "python b.py">>
    /\ last.hash # runs.hash

\* C20: the fingerprint of a command with a missing dependency is computed
\* without an error, and the missing dependency takes part in it as a null
\* hash: the result is a digest, and it differs from the fingerprint of the
\* same script and dependency list for any other state of the dependencies
\* (the dependency present, or another one missing).
MissingDepSentinel ==
    (/\ last.op = "fingerprint"
     /\ Missing(last) # {}
     /\ \A kv \in last.content : kv[2].kind # "special")
    => /\ last.hash # Exit
       /\ Computed(last)
       /\ (/\ Computed(runs)
           /\ runs.cmd.script = last.cmd.script
           /\ runs.cmd.deps = last.cmd.deps
           /\ runs.content # last.content)
          => runs.hash # last.hash

MissingDepSentinelWitness ==
    /\ last.op = "fingerprint" /\ Computed(last) /\ Computed(runs)
    /\ last.cmd.deps = <<"a.txt", "out">> /\ runs.cmd.deps = last.cmd.deps
    /\ runs.cmd.script = last.cmd.script
    /\ last.content = {<<"a.txt", Absent>>, <<"out", File(X)>>}
    /\ runs.content = {<<"a.txt", File(X)>>, <<"out", Absent>>}
    /\ runs.hash # last.hash


(***************************************************************************)
(* Fatal conditions.                                                       *)
(***************************************************************************)
\* C21: a fatal condition of the core (here: the checksum of a path that is
\* neither file nor directory) reaches the caller as an error value or an
\* exception; the core never ends the process itself, so no run ends with
\* the process exiting inside the skip decision or inside the record.
NeverExitsProcess ==
    ~(last.op = "run" /\ last.outcome \in {"exit", "lock_exit"})


(***************************************************************************)
(* Storage operations in flight.  `runs` is the list of the pushes that    *)
(* have begun, each with its position, its slot and the bytes it uploads;  *)
(* `last` is the position of the one pull.  All pushes are to the triple   *)
(* ("out", "aaaa", "bbbb"); the pull resolves the latest version of "out". *)
(***************************************************************************)
\* smart_open.open(dest, mode="wb"): dest exists from here on, with no bytes.
open_wb(store, dest) ==
    {a \in store : Key(a) # dest} \cup {Artifact(dest, File(<<>>))}

\* A push begins: it takes its timestamp-qualified slot.
push_begin(src) ==
    /\ clock < MaxPushes
    /\ clock' = clock + 1
    /\ runs' = Append(runs, [pc |-> "open", src |-> src,
                             url |-> make_url("out", "aaaa", "bbbb", clock + 1)])
    /\ UNCHANGED <<local, remote, pushlog, lockfile, last>>

\* upload_file, first half: the destination is opened for writing.
push_open(i) ==
    /\ runs[i].pc = "open"
    /\ remote' = open_wb(remote, runs[i].url)
    /\ runs' = [runs EXCEPT ![i].pc = "write"]
    /\ UNCHANGED <<local, clock, pushlog, lockfile, last>>

\* upload_file, second half: the bytes are written and the file is closed.
push_write(i) ==
    /\ runs[i].pc = "write"
    /\ remote' = upload_file(remote, runs[i].src, runs[i].url)
    /\ pushlog' = Append(pushlog, Artifact(runs[i].url, runs[i].src))
    /\ runs' = [runs EXCEPT ![i].pc = "done"]
    /\ UNCHANGED <<local, clock, lockfile, last>>

\* The pull resolves the latest version of "out" ...
pull_find ==
    /\ last.op = "none"
    /\ last' = Op("find", "out", None, None, Key(find(remote, "out", None, None)))
    /\ UNCHANGED <<local, remote, clock, pushlog, lockfile, runs>>

\* ... and copies what the resolved location holds at that moment.
pull_download ==
    /\ last.op = "find"
    /\ last' = Op("pull", "out", None, None, last.url)
    /\ local' = IF last.url = NoUrl THEN local
                ELSE [local EXCEPT !["out"] = download_file(
                         (CHOOSE a \in remote : Key(a) = last.url).data, @, TRUE)]
    /\ UNCHANGED <<remote, clock, pushlog, lockfile, runs>>

SpecUpload ==
    InitRemote /\ [][\/ \E src \in FileNodes : push_begin(src)
                     \/ \E i \in DOMAIN runs : push_open(i) \/ push_write(i)
                     \/ pull_find
                     \/ pull_download]_vars

\* C22: concurrent pushes to one triple do not corrupt each other: under
\* every interleaving each push has a slot of its own, and once a push has
\* completed the store holds, in its slot, exactly the bytes it wrote, so
\* that after both have completed the store holds two complete artifacts.
ConcurrentPushesIsolated ==
    /\ \A i, j \in DOMAIN runs : i # j => runs[i].url # runs[j].url
    /\ \A i \in DOMAIN runs :
          runs[i].pc = "done" => Artifact(runs[i].url, runs[i].src) \in remote
    /\ (\A i \in DOMAIN runs : runs[i].pc = "done") =>
          Cardinality(remote) = Len(runs)

\* Two pushes with different bytes overlapped (the one that began second
\* completed first) and both have completed.
ConcurrentPushesIsolatedWitness ==
    /\ Len(runs) = 2
    /\ \A i \in DOMAIN runs : runs[i].pc = "done"
    /\ runs[1].src # runs[2].src
    /\ pushlog[1].ts = 2

\* C23: a pull that resolves the latest version while a push is in flight
\* restores the complete bytes of the previously latest or of the new
\* version, never partial bytes, and finds a version when an old one exists.
PullOldOrNew ==
    /\ (last.op = "find" /\ last.url = NoUrl) => last.stored = 0
    /\ (last.op = "pull" /\ last.url # NoUrl) =>
          \E i \in DOMAIN runs : local["out"] = runs[i].src


(***************************************************************************)
(* validate_project_commands.  A config is its list of command names and   *)
(* its workflows, a dict from workflow names to lists of steps.            *)
(***************************************************************************)
MaxCommands == 2

CommandLists == UNION {[1..n -> {"a", "b"}] : n \in 0..MaxCommands}
StepLists == {<<>>, <<"a">>, <<"c">>, <<"a", "b">>}
Configs ==
    {[commands |-> cs, workflows |-> ws] :
        cs \in CommandLists,
        ws \in UNION {[names -> StepLists] : names \in SUBSET {"a", "all"}}}

\* Variant of validate_project_commands that does not look at the steps.
validate_project_commands_no_steps(config) ==
    LET command_names == config.commands
        count(cmd) == Cardinality({i \in DOMAIN command_names : command_names[i] = cmd})
        duplicates == {command_names[i] : i \in {j \in DOMAIN command_names :
                                                    count(command_names[j]) > 1}}
        names == {command_names[i] : i \in DOMAIN command_names}
    IN IF duplicates # {} THEN "exit"
       ELSE IF \E workflow_name \in DOMAIN config.workflows : workflow_name \in names
       THEN "exit"
       ELSE "ok"

\* validate_project_commands(config): exit on a command name that occurs
\* more than once, on a workflow named like a command, and on a workflow
\* step that is no command name.
validate_project_commands(config) ==
    LET command_names == config.commands
        workflows == config.workflows
        count(cmd) == Cardinality({i \in DOMAIN command_names : command_names[i] = cmd})
        duplicates == {command_names[i] : i \in {j \in DOMAIN command_names :
                                                    count(command_names[j]) > 1}}
        names == {command_names[i] : i \in DOMAIN command_names}
    IN IF duplicates # {} THEN "exit"
       ELSE IF \E workflow_name \in DOMAIN workflows :
                  \/ workflow_name \in names
                  \/ \E k \in DOMAIN workflows[workflow_name] :
                        workflows[workflow_name][k] \notin names
       THEN "exit"
       ELSE "ok"

validate(config) ==
    /\ last' = [op |-> "validate", config |-> config,
                outcome |-> validate_project_commands(config)]
    /\ UNCHANGED <<local, remote, clock, pushlog, lockfile, runs>>

SpecValidate == InitRemote /\ [][\E config \in Configs : validate(config)]_vars

\* C24: validate_project_commands exits exactly on the configs in which two
\* commands share a name, a workflow is named like a command, or a workflow
\* lists a step that is not a command name; every other config is accepted.
ValidationRejectsExactly ==
    last.op = "validate" =>
        LET cs == last.config.commands
            ws == last.config.workflows
        IN (last.outcome = "exit") <=>
              \/ \E i, j \in DOMAIN cs : i # j /\ cs[i] = cs[j]
              \/ \E w \in DOMAIN ws : \E i \in DOMAIN cs : cs[i] = w
              \/ \E w \in DOMAIN ws : \E k \in DOMAIN ws[w] :
                    \A i \in DOMAIN cs : cs[i] # ws[w][k]

\* A config with two commands and a workflow over both has been accepted.
ValidationRejectsExactlyWitness ==
    /\ last.op = "validate"
    /\ last.outcome = "ok"
    /\ \E w \in DOMAIN last.config.workflows : Len(last.config.workflows[w]) = 2


(***************************************************************************)
(* document: the output file.  A text is a sequence of pieces; a piece is  *)
(* a marker line or a piece of other text.                                 *)
(***************************************************************************)
MaxText == 4

MARKER_TAGS == <<"WEASEL", "SPACY PROJECT">>
MARKER_START(tag) == <<"start", tag>>
MARKER_END(tag) == <<"end", tag>>
MARKER_IGNORE(tag) == <<"ignore", tag>>

Pieces ==
    {MARKER_START(MARKER_TAGS[t]) : t \in 1..2} \cup {MARKER_END(MARKER_TAGS[t]) : t \in 1..2}
        \cup {MARKER_IGNORE("WEASEL"), <<"text", "a">>, <<"text", "b">>}
Texts == UNION {[1..n -> Pieces] : n \in 0..MaxText}

\* marker in text
contains(text, marker) == \E i \in DOMAIN text : text[i] = marker

\* text.split(marker)[n], for n = 0 and n = 1 (marker occurs in text)
split_at(text, marker, n) ==
    LET occ == {i \in DOMAIN text : text[i] = marker}
        first == CHOOSE i \in occ : \A j \in occ : i <= j
        later == {i \in occ : i > first}
        second == IF later = {} THEN Len(text) + 1
                  ELSE CHOOSE i \in later : \A j \in later : i <= j
    IN IF n = 0 THEN SubSeq(text, 1, first - 1)
       ELSE SubSeq(text, first + 1, second - 1)

\* The rendered documentation: what md.text holds.
md_text == <<MARKER_START("WEASEL"), <<"text", "docs">>, MARKER_END("WEASEL")>>

\* project_document, from `content = md.text` on: what the output file
\* holds afterwards.
project_document(file_exists, existing) ==
    LET content == md_text
        found == {t \in 1..2 : /\ contains(existing, MARKER_START(MARKER_TAGS[t]))
                               /\ contains(existing, MARKER_END(MARKER_TAGS[t]))}
        marker_tag == MARKER_TAGS[CHOOSE t \in found : \A u \in found : t <= u]
    IN IF ~file_exists THEN content
       ELSE IF \E t \in 1..2 : contains(existing, MARKER_IGNORE(MARKER_TAGS[t]))
       THEN existing
       ELSE IF found = {} THEN content
       ELSE split_at(existing, MARKER_START(marker_tag), 0) \o content
                \o split_at(existing, MARKER_END(marker_tag), 1)

document(file_exists, existing) ==
    /\ last.op = "none"
    /\ last' = [op |-> "document", existed |-> file_exists, existing |-> existing,
                text |-> project_document(file_exists, existing)]
    /\ UNCHANGED <<local, remote, clock, pushlog, lockfile, runs>>

SpecDocument ==
    InitRemote /\ [][\/ document(FALSE, <<>>)
                     \/ \E existing \in Texts : document(TRUE, existing)]_vars

\* C25: re-running document on an existing file with a start and, after it,
\* an end marker of one tag replaces only the section between the markers: the
\* file afterwards is the text before the start marker, the new section,
\* and the text after the end marker; a file with the ignore marker is left
\* as it was.
DocumentReplacesOnlySection ==
    (last.op = "document" /\ last.existed) =>
        LET existing == last.existing
        IN IF \E t \in 1..2 : contains(existing, MARKER_IGNORE(MARKER_TAGS[t]))
           THEN last.text = existing
           ELSE \A t \in 1..2 :
                  (/\ contains(existing, MARKER_START(MARKER_TAGS[t]))
                   /\ contains(existing, MARKER_END(MARKER_TAGS[t]))
                   /\ \A j \in DOMAIN existing :
                         existing[j] = MARKER_END(MARKER_TAGS[t]) =>
                            \E i \in 1..(j - 1) : existing[i] = MARKER_START(MARKER_TAGS[t])) =>
                      \E t2 \in 1..2, i, j \in DOMAIN existing :
                          /\ existing[i] = MARKER_START(MARKER_TAGS[t2])
                          /\ existing[j] = MARKER_END(MARKER_TAGS[t2])
                          /\ last.text = SubSeq(existing, 1, i - 1) \o md_text
                                            \o SubSeq(existing, j + 1, Len(existing))


(***************************************************************************)
(* working_dir and make_tempdir.  `runs` is the stack of the `with` blocks *)
(* the process is in, `clock` the number of blocks entered so far, and     *)
(* `last` holds the current working directory, the temporary directories   *)
(* on disk and whether an exception is propagating.                        *)
(***************************************************************************)
MaxBlocks == 3

StartDir == "/proj"

Frame(kind, prev_cwd, d) == [kind |-> kind, prev_cwd |-> prev_cwd, d |-> d]
Process(op, cwd, dirs, raising, left) ==
    [op |-> op, cwd |-> cwd, dirs |-> dirs, raising |-> raising, left |-> left,
     depth |-> IF op = "start" \/ last.depth < Len(runs) THEN Len(runs) ELSE last.depth]

\* Variant of working_dir whose exit is not in a `finally`.
working_dir_exit_no_finally(frame, cwd, raising) ==
    IF raising THEN cwd ELSE frame.prev_cwd

\* working_dir, after the yield: os.chdir(prev_cwd), in a `finally`.
working_dir_exit(frame, cwd, raising) == frame.prev_cwd

\* make_tempdir, after the yield: reached only when the block ends without
\* an exception; rmtree removes the directory unless it fails with a
\* PermissionError, which is turned into a warning.
make_tempdir_exit(frame, dirs, raising, denied) ==
    IF raising \/ denied THEN dirs ELSE dirs \ {frame.d}

InitBlocks ==
    /\ local = [p \in AllPaths |-> Absent]
    /\ remote = {}
    /\ clock = 0
    /\ pushlog = <<>>
    /\ lockfile = NoLock
    /\ runs = <<>>
    /\ last = Process("start", StartDir, {}, FALSE, StartDir)

\* `with working_dir(path):` chdir raises when path is no directory.
working_dir_enter(path) ==
    /\ ~last.raising
    /\ clock < MaxBlocks
    /\ clock' = clock + 1
    /\ IF path = "/missing"
       THEN /\ last' = Process("enter", last.cwd, last.dirs, TRUE, last.cwd)
            /\ runs' = runs
       ELSE /\ last' = Process("enter", path, last.dirs, FALSE, last.cwd)
            /\ runs' = Append(runs, Frame("working_dir", last.cwd, 0))
    /\ UNCHANGED <<local, remote, pushlog, lockfile>>

\* `with make_tempdir() as d:`
make_tempdir_enter ==
    /\ ~last.raising
    /\ clock < MaxBlocks
    /\ clock' = clock + 1
    /\ last' = Process("enter", last.cwd, last.dirs \cup {clock + 1}, FALSE, last.cwd)
    /\ runs' = Append(runs, Frame("make_tempdir", None, clock + 1))
    /\ UNCHANGED <<local, remote, pushlog, lockfile>>

\* The body of the innermost block raises.
block_raises ==
    /\ runs # <<>>
    /\ ~last.raising
    /\ last' = Process("raise", last.cwd, last.dirs, TRUE, last.cwd)
    /\ UNCHANGED <<local, remote, clock, pushlog, lockfile, runs>>

\* The innermost block ends: normally, or because an exception leaves it.
block_exit(denied) ==
    /\ runs # <<>>
    /\ LET frame == runs[Len(runs)]
       IN last' = IF frame.kind = "working_dir"
                  THEN Process("exit", working_dir_exit(frame, last.cwd, last.raising),
                               last.dirs, last.raising, last.cwd)
                  ELSE Process("exit", last.cwd,
                               make_tempdir_exit(frame, last.dirs, last.raising, denied),
                               last.raising, last.cwd)
    /\ runs' = SubSeq(runs, 1, Len(runs) - 1)
    /\ UNCHANGED <<local, remote, clock, pushlog, lockfile>>

\* An enclosing `try` or the caller catches the exception.
block_catch ==
    /\ last.raising
    /\ last' = Process("catch", last.cwd, last.dirs, FALSE, last.cwd)
    /\ UNCHANGED <<local, remote, clock, pushlog, lockfile, runs>>

SpecBlocks ==
    InitBlocks /\ [][\/ \E path \in {"/proj/a", "/proj/b", "/missing"} : working_dir_enter(path)
                     \/ make_tempdir_enter
                     \/ block_raises
                     \/ \E denied \in BOOLEAN : block_exit(denied)
                     \/ block_catch]_vars

\* C26: after a make_tempdir block has ended, normally or by an exception
\* raised inside it, its temporary directory has been removed: every
\* temporary directory on disk belongs to a block the process is still in.
TempdirRemoved ==
    \A d \in last.dirs : \E i \in DOMAIN runs : runs[i].d = d

\* C27: working_dir restores the previous working directory when its block
\* exits, normally or by an exception: outside all blocks the working
\* directory is the one before the first block, and inside blocks the
\* outermost working_dir block holds that directory to return to while the
\* blocks without a working_dir block around them have left it in place.
WorkingDirRestored ==
    /\ runs = <<>> => last.cwd = StartDir
    /\ \A i \in DOMAIN runs :
          (\A j \in 1..(i - 1) : runs[j].kind # "working_dir") =>
              IF runs[i].kind = "working_dir" THEN runs[i].prev_cwd = StartDir
              ELSE (\A j \in DOMAIN runs : runs[j].kind # "working_dir") =>
                       last.cwd = StartDir

\* An exception has left two nested working_dir blocks.
WorkingDirRestoredWitness ==
    /\ runs = <<>>
    /\ last.op = "exit"
    /\ last.raising
    /\ last.depth = 2
    /\ last.left \in {"/proj/a", "/proj/b"}
    /\ last.dirs = {}


(***************************************************************************)
(* SimpleFrozenDict.  A dict is a function from its keys to their values;  *)
(* `last` holds the dict, its contents at construction, and the outcome of *)
(* the last method call.                                                   *)
(***************************************************************************)
Dicts == UNION {[keys -> {1, 2}] : keys \in SUBSET {"a", "b"}}

without(d, key) == [k \in DOMAIN d \ {key} |-> d[k]]

\* One method call on a SimpleFrozenDict: the dict afterwards and whether the
\* call raised.  __setitem__, pop and update are overridden and raise
\* NotImplementedError; the other methods are those of dict.
SimpleFrozenDict(method, d, key, value) ==
    CASE method \in {"__setitem__", "pop", "update"} ->
            [dict |-> d, raised |-> TRUE]
      [] method = "setdefault" ->
            [dict |-> IF key \in DOMAIN d THEN d
                      ELSE [k \in DOMAIN d \cup {key} |-> IF k = key THEN value ELSE d[k]],
             raised |-> FALSE]
      [] method \in {"__delitem__", "popitem"} ->
            IF key \in DOMAIN d THEN [dict |-> without(d, key), raised |-> FALSE]
            ELSE [dict |-> d, raised |-> TRUE]
      [] method = "clear" ->
            [dict |-> [k \in {} |-> 1], raised |-> FALSE]
      [] method \in {"__getitem__", "get"} ->
            [dict |-> d, raised |-> method = "__getitem__" /\ key \notin DOMAIN d]

\* SimpleFrozenDict(d)
frozen_new(d) ==
    /\ last.op = "none"
    /\ last' = [op |-> "__init__", dict |-> d, before |-> d, raised |-> FALSE, key |-> None]
    /\ UNCHANGED <<local, remote, clock, pushlog, lockfile, runs>>

frozen_call(method, key, value) ==
    /\ last.op # "none"
    /\ LET r == SimpleFrozenDict(method, last.dict, key, value)
       IN last' = [op |-> method, dict |-> r.dict, before |-> last.before,
                   raised |-> r.raised, key |-> key]
    /\ UNCHANGED <<local, remote, clock, pushlog, lockfile, runs>>

SpecFrozen ==
    InitRemote /\ [][\/ \E d \in Dicts : frozen_new(d)
                     \/ \E method \in {"__setitem__", "pop", "update", "setdefault",
                                       "__delitem__", "popitem", "clear",
                                       "__getitem__", "get"},
                           key \in {"a", "b"}, value \in {1, 2} :
                               frozen_call(method, key, value)]_vars

\* C28: a SimpleFrozenDict is immutable after construction: item assignment,
\* update, pop, setdefault, item deletion, popitem and clear each raise an
\* error and leave the contents as they were at construction.
FrozenDictImmutable ==
    /\ last.op \notin {"none"} => last.dict = last.before
    /\ last.op \in {"__setitem__", "pop", "update", "setdefault",
                    "__delitem__", "popitem", "clear"} => last.raised


(***************************************************************************)
(* project_push: the whole loop over the commands of the config.  `last`   *)
(* holds what the call yielded, in order, and whether the process ended    *)
(* inside it.                                                              *)
(***************************************************************************)
\* config["commands"]: create, and after it a command without dependencies
\* with two cached outputs.
PushConfig ==
    <<create,
      [name |-> "pack", script |-> <<"tar">>, deps |-> <<>>,
       outputs |-> <<"log", "out">>, outputs_no_cache |-> <<"a.txt">>,
       no_skip |-> FALSE]>>

RECURSIVE project_push_outputs(_, _, _, _)
\* for output_path in cmd.get("outputs", []): ...
project_push_outputs(fs, outputs, command_hash, acc) ==
    IF outputs = <<>> \/ acc.exited THEN acc
    ELSE LET output_path == Head(outputs)
             output_loc == fs[output_path]
             content_hash == get_content_hash(output_loc)
             url == make_url(output_path, command_hash, content_hash, acc.now + 1)
         IN project_push_outputs(fs, Tail(outputs), command_hash,
                IF ~(exists(output_loc) /\ is_not_empty_dir(output_loc)) THEN acc
                ELSE IF content_hash = Exit THEN [acc EXCEPT !.exited = TRUE]
                ELSE [acc EXCEPT !.store = upload_file(@, output_loc, url),
                                 !.now = @ + 1,
                                 !.yielded = Append(@, Artifact(url, output_loc))])

RECURSIVE project_push_commands(_, _, _)
\* for cmd in config.get("commands", []): ...
project_push_commands(fs, commands, acc) ==
    IF commands = <<>> \/ acc.exited THEN acc
    ELSE LET cmd == Head(commands)
         IN project_push_commands(fs, Tail(commands),
                IF \E i \in DOMAIN cmd.deps : ~exists(fs[cmd.deps[i]]) THEN acc
                ELSE IF cmd_hash(fs, cmd) = Exit THEN [acc EXCEPT !.exited = TRUE]
                ELSE project_push_outputs(fs, cmd.outputs, cmd_hash(fs, cmd), acc))

project_push ==
    /\ clock < MaxPushes
    /\ LET r == project_push_commands(local, PushConfig,
                    [store |-> remote, now |-> clock, yielded |-> <<>>, exited |-> FALSE])
       IN /\ remote' = r.store
          /\ clock' = r.now
          /\ pushlog' = pushlog \o r.yielded
          /\ last' = [op |-> "project_push", yielded |-> r.yielded, exited |-> r.exited]
    /\ UNCHANGED <<local, lockfile, runs>>

SpecProjectPush ==
    InitRemote /\ [][\/ project_push
                     \/ \E n \in {File(X), Special} : write_local("a.txt", n)
                     \/ \E n \in TreeNodes : write_local("out", n)
                     \/ write_local("log", File(Y))
                     \/ \E p \in AllPaths : unlink(p)]_vars

\* C29: project_push visits the commands in config order; it pushes no
\* output of a command with a dependency missing on disk and goes on to the
\* commands after it; for each command with all dependencies present it
\* pushes exactly the declared cached outputs that exist and are not empty
\* directories, in declared order.
ProjectPushExact ==
    last.op = "project_push" =>
        LET pushable(cmd) ==
                IF \E i \in DOMAIN cmd.deps : ~exists(local[cmd.deps[i]]) THEN <<>>
                ELSE SelectSeq(cmd.outputs,
                         LAMBDA p : exists(local[p]) /\ is_not_empty_dir(local[p]))
        IN /\ [i \in DOMAIN last.yielded |-> last.yielded[i].path]
                 = pushable(PushConfig[1]) \o pushable(PushConfig[2])
           /\ \A i \in DOMAIN last.yielded :
                 /\ last.yielded[i] \in remote
                 /\ last.yielded[i].data = local[last.yielded[i].path]


(***************************************************************************)
(* Two record operations at once.  `runs` holds, per command name, the     *)
(* position of the update_lockfile call for that command, the mapping it   *)
(* has in memory, and the names of the calls that had completed when it    *)
(* began.                                                                  *)
(***************************************************************************)
InitRecords ==
    /\ local = [p \in AllPaths |-> Absent]
    /\ remote = {}
    /\ clock = 0
    /\ pushlog = <<>>
    /\ lockfile \in {NoLock, write_yaml({})}
    /\ runs = [n \in {c.name : c \in Commands} |->
                  [pc |-> "idle", data |-> {}, after |-> {}]]
    /\ last = Idle

\* One step of update_lockfile(current_dir, command).  A call that reads
\* the lock file while another call has it open for writing reads an empty
\* document and fails at the item assignment.
update_lockfile_step(command) ==
    LET name == command.name
        p == runs[name]
    IN \/ /\ p.pc = "idle"
          /\ runs' = [runs EXCEPT ![name] =
                         [pc |-> IF lockfile.exists THEN "read" ELSE "create",
                          data |-> {},
                          after |-> {m \in DOMAIN runs : runs[m].pc = "done"}]]
          /\ UNCHANGED <<local, remote, clock, pushlog, lockfile, last>>
       \/ /\ p.pc = "create"
          /\ lockfile' = write_yaml({})
          /\ runs' = [runs EXCEPT ![name].pc = "merge", ![name].data = {}]
          /\ UNCHANGED <<local, remote, clock, pushlog, last>>
       \/ /\ p.pc = "read"
          /\ runs' = IF \E m \in DOMAIN runs : runs[m].pc = "write"
                     THEN [runs EXCEPT ![name].pc = "error"]
                     ELSE [runs EXCEPT ![name].pc = "merge",
                                       ![name].data = read_yaml(lockfile)]
          /\ UNCHANGED <<local, remote, clock, pushlog, lockfile, last>>
       \/ /\ p.pc = "merge"
          /\ runs' = [runs EXCEPT ![name].pc = "open",
                         ![name].data = setitem(@, name, get_lock_entry(local, command))]
          /\ UNCHANGED <<local, remote, clock, pushlog, lockfile, last>>
       \/ /\ p.pc = "open"
          /\ lockfile' = open_w(lockfile)
          /\ runs' = [runs EXCEPT ![name].pc = "write"]
          /\ UNCHANGED <<local, remote, clock, pushlog, last>>
       \/ /\ p.pc = "write"
          /\ lockfile' = write_yaml(p.data)
          /\ runs' = [runs EXCEPT ![name].pc = "done"]
          /\ UNCHANGED <<local, remote, clock, pushlog, last>>

SpecRecords ==
    InitRecords /\ [][\/ \E command \in Commands : update_lockfile_step(command)
                      \/ (\A n \in DOMAIN runs : runs[n].pc = "idle")
                            /\ \E p \in {"a.txt", "out"}, n \in FileNodes : write_local(p, n)]_vars

\* C30 as stated: when two record operations for two different command
\* names run concurrently, the lock file after both have completed contains
\* both commands' entries under every interleaving.
NoUpdateLost ==
    (\A n \in DOMAIN runs : runs[n].pc = "done") =>
        \A c \in Commands :
            /\ HasEntry(lockfile.data, c.name)
            /\ Entry(lockfile.data, c.name) = get_lock_entry(local, c)

\* C30, amended: when two record operations for two different command names
\* run one after the other (the second begins after the first has
\* completed), the lock file after both have completed contains both
\* commands' entries; when they overlap, one of the updates can be lost.
NoUpdateLostInTurn ==
    (/\ \A n \in DOMAIN runs : runs[n].pc = "done"
     /\ \E n \in DOMAIN runs : runs[n].after # {}) =>
        \A c \in Commands :
            /\ HasEntry(lockfile.data, c.name)
            /\ Entry(lockfile.data, c.name) = get_lock_entry(local, c)

\* Both records have completed, one after the other, on a project that had
\* no lock file.
NoUpdateLostInTurnWitness ==
    /\ \A n \in DOMAIN runs : runs[n].pc = "done"
    /\ runs["check"].after = {"create"}
    /\ exists(local["a.txt"])

====
